---- MODULE Spec2Model ----
(***************************************************************************)
(* Model of proglog/proglog.py: the progress loggers ProgressLogger,       *)
(* ProgressBarLogger and TqdmProgressBarLogger, and the construction of    *)
(* the rq loggers RqWorkerProgressLogger and RqWorkerBarLogger.            *)
(*                                                                         *)
(* Python values are option-wrapped: None is <<>> and a value v is <<v>>.  *)
(* A keyword batch is a sequence of [key, value] items with distinct      *)
(* keys, in the order the caller wrote them.  The OrderedDict             *)
(* state['bars'] is a sequence of [key, val] entries in insertion order.   *)
(* Strings are TLA+ strings; the Python string tests (in, endswith,        *)
(* split) are computed on their characters.                                *)
(***************************************************************************)
EXTENDS Integers, Sequences, FiniteSets, TLC

VARIABLES
    cls,           \* class of the logger object
    ignored_bars,  \* self.ignored_bars
    state,         \* self.state without its 'bars' entry
    bars,          \* self.state['bars'] (OrderedDict)
    tqdm_bars,     \* self.tqdm_bars: bar name -> handle or None
    nhandles,      \* number of tqdm objects constructed so far
    backend,       \* calls received by tqdm since construction
    kw,            \* keyword arguments of the last __call__
    hooks,         \* bars_callback / callback invocations of the last operation
    err,           \* exception raised by the last operation ("" when none)
    gen,           \* what iter_bar returned to the consumer, and its position
    ncalls,        \* number of calls made on the bar engine
    calls,         \* the calls made on the rendering engine, in order
    itr,           \* what iter returned to the consumer, and its position
    rq             \* the rq job and the construction of its logger

vars == <<cls, ignored_bars, state, bars, tqdm_bars, nhandles, backend,
          kw, hooks, err, gen, ncalls, calls, itr, rq>>

----------------------------------------------------------------------------
(* Bounds *)

MaxCalls == 1
MaxKeys == 2
MaxTqdmCalls == 4
MaxTotal == 2
MaxLen == 2
MaxFields == 1
MaxDepth == 3

----------------------------------------------------------------------------
(* Python values and strings *)

None == <<>>
Some(v) == <<v>>

\* Python `sub in s` for two str objects
Contains(s, sub) ==
    \E i \in 1..(Len(s) - Len(sub) + 1) : SubSeq(s, i, i + Len(sub) - 1) = sub

\* Python s.endswith(suf)
EndsWith(s, suf) ==
    /\ Len(s) >= Len(suf)
    /\ SubSeq(s, Len(s) - Len(suf) + 1, Len(s)) = suf

\* position of the first occurrence of sep in s, 0 when there is none
Find(s, sep) ==
    IF Contains(s, sep)
    THEN CHOOSE i \in 1..(Len(s) - Len(sep) + 1) :
            /\ SubSeq(s, i, i + Len(sep) - 1) = sep
            /\ \A j \in 1..(i - 1) : SubSeq(s, j, j + Len(sep) - 1) /= sep
    ELSE 0

\* Python s.split(sep)
RECURSIVE Split(_, _)
Split(s, sep) ==
    LET i == Find(s, sep) IN
    IF i = 0 THEN <<s>>
    ELSE <<SubSeq(s, 1, i - 1)>> \o Split(SubSeq(s, i + Len(sep), Len(s)), sep)

----------------------------------------------------------------------------
(* dict and OrderedDict *)

Keys(items) == {items[i].key : i \in 1..Len(items)}

\* position of key k in an item sequence, 0 when absent
Pos(items, k) ==
    IF k \in Keys(items)
    THEN CHOOSE i \in 1..Len(items) : items[i].key = k
    ELSE 0

\* kw.pop(key)
Pop(items, k) == SelectSeq(items, LAMBDA it : it.key /= k)

\* d.update(kw) on a plain dict d
Update(d, items) ==
    [k \in DOMAIN d \cup Keys(items) |->
        IF k \in Keys(items) THEN items[Pos(items, k)].value ELSE d[k]]

\* self.bars[bar]
Bar(bs, b) == bs[Pos(bs, b)].val

\* self.bars[bar][attr] = value
SetAttrClearsMessage(bs, b, attr, value) ==
    [bs EXCEPT ![Pos(bs, b)].val = [[@ EXCEPT !.message = None] EXCEPT ![attr] = value]]
SetAttr(bs, b, attr, value) ==
    [bs EXCEPT ![Pos(bs, b)].val = [@ EXCEPT ![attr] = value]]

\* dict(title=b, index=-1, total=None, message=None)
NewBar(b) == [title |-> Some(b), index |-> Some(-1),
              total |-> None, message |-> None]

----------------------------------------------------------------------------
(* ProgressBarLogger *)

\* the bars argument given as a list of names
InitBars(names) == [i \in 1..Len(names) |-> [key |-> names[i], val |-> NewBar(names[i])]]

\* ignored_bars as stored by __init__: None, a str, or the set of a list
IgnoreNone == [kind |-> "None", val |-> {}]
IgnoreStr(s) == [kind |-> "str", val |-> s]
IgnoreSet(S) == [kind |-> "set", val |-> S]

\* `bar in self.ignored_bars`, for a str (substring test) or a set
InIgnoredAsWhitelist(bar, ig) ==
    IF ig.kind = "str" THEN Contains(ig.val, bar) ELSE bar \notin ig.val
InIgnored(bar, ig) ==
    IF ig.kind = "str" THEN Contains(ig.val, bar) ELSE bar \in ig.val

\* ProgressBarLogger.bar_is_ignored (no caller in the module)
bar_is_ignored(bar, ig, bs) ==
    IF ig.kind = "None" THEN FALSE
    ELSE IF ig.kind = "str" /\ ig.val = "all_others" THEN bar \notin Keys(bs)
    ELSE ~InIgnored(bar, ig)

\* sorted(kw.items(), key=lambda kv: not kv[0].endswith('total')): a stable
\* sort on a boolean key, False (ends with 'total') first
SortedItemsUnsorted(items) == items
SortedItems(items) ==
    SelectSeq(items, LAMBDA it : EndsWith(it.key, "total"))
        \o SelectSeq(items, LAMBDA it : ~EndsWith(it.key, "total"))

----------------------------------------------------------------------------
(* TqdmProgressBarLogger: the tqdm object of a bar is a handle number and   *)
(* the calls made on tqdm objects are appended to e.backend.               *)

SetHandle(tb, bar, v) ==
    [k \in DOMAIN tb \cup {bar} |-> IF k = bar THEN v ELSE tb[k]]

\* TqdmProgressBarLogger.close_tqdm_bar
close_tqdm_barKeepsHandle(e, bar) ==
    IF e.tqdm_bars[bar] = None
    THEN [e EXCEPT !.err = "AttributeError"]
    ELSE [e EXCEPT
            !.backend = Append(@, [op |-> "close", bar |-> bar,
                                   h |-> e.tqdm_bars[bar][1], arg |-> None])]
close_tqdm_bar(e, bar) ==
    IF e.tqdm_bars[bar] = None
    THEN [e EXCEPT !.err = "AttributeError"]
    ELSE [e EXCEPT
            !.backend = Append(@, [op |-> "close", bar |-> bar,
                                   h |-> e.tqdm_bars[bar][1], arg |-> None]),
            !.tqdm_bars = SetHandle(@, bar, None)]

\* TqdmProgressBarLogger.new_tqdm_bar
new_tqdm_bar(e, bar) ==
    LET e1 == IF bar \in DOMAIN e.tqdm_bars /\ e.tqdm_bars[bar] /= None
              THEN close_tqdm_bar(e, bar) ELSE e
        infos == Bar(e1.bars, bar)
        h == e1.nhandles + 1
    IN [e1 EXCEPT
            !.nhandles = h,
            !.backend = Append(@, [op |-> "create", bar |-> bar, h |-> h,
                                   arg |-> infos.total]),
            !.tqdm_bars = SetHandle(@, bar, Some(h))]

\* self.tqdm_bars[bar].update(n)
tqdm_update(e, bar, n) ==
    [e EXCEPT !.backend = Append(@, [op |-> "advance", bar |-> bar,
                                     h |-> e.tqdm_bars[bar][1], arg |-> Some(n)])]

\* self.tqdm_bars[bar].set_postfix(value)
tqdm_set_postfix(e, bar, value) ==
    [e EXCEPT !.backend = Append(@, [op |-> "set_message", bar |-> bar,
                                     h |-> e.tqdm_bars[bar][1], arg |-> value])]

\* TqdmProgressBarLogger.bars_callback
TqdmBarsCallbackLateClose(e, bar, attr, value, old_value) ==
    LET e1 == IF bar \notin DOMAIN e.tqdm_bars \/ e.tqdm_bars[bar] = None
              THEN new_tqdm_bar(e, bar) ELSE e
    IN  IF attr = "index"
        THEN IF value = None \/ old_value = None
             THEN [e1 EXCEPT !.err = "TypeError"]
             ELSE IF value[1] >= old_value[1]
             THEN LET total == Bar(e1.bars, bar).total IN
                  IF total /= None /\ total[1] /= 0 /\ value[1] > total[1]
                  THEN close_tqdm_bar(e1, bar)
                  ELSE tqdm_update(e1, bar, value[1] - old_value[1])
             ELSE tqdm_update(new_tqdm_bar(e1, bar), bar, value[1] + 1)
        ELSE IF attr = "message"
        THEN tqdm_set_postfix(e1, bar, value)
        ELSE e1
TqdmBarsCallback(e, bar, attr, value, old_value) ==
    LET e1 == IF bar \notin DOMAIN e.tqdm_bars \/ e.tqdm_bars[bar] = None
              THEN new_tqdm_bar(e, bar) ELSE e
    IN  IF attr = "index"
        THEN IF value = None \/ old_value = None
             THEN [e1 EXCEPT !.err = "TypeError"]
             ELSE IF value[1] >= old_value[1]
             THEN LET total == Bar(e1.bars, bar).total IN
                  IF total /= None /\ total[1] /= 0 /\ value[1] >= total[1]
                  THEN close_tqdm_bar(e1, bar)
                  ELSE tqdm_update(e1, bar, value[1] - old_value[1])
             ELSE tqdm_update(new_tqdm_bar(e1, bar), bar, value[1] + 1)
        ELSE IF attr = "message"
        THEN tqdm_set_postfix(e1, bar, value)
        ELSE e1

\* bars_callback of the logger's class, recorded in e.hooks
bars_callbackSwallowsError(e, c, bar, attr, value, old_value) ==
    LET e1 == [e EXCEPT !.hooks = Append(@, [name |-> "bars_callback",
                            bar |-> bar, attr |-> attr, value |-> value,
                            old_value |-> old_value, kw |-> <<>>])]
    IN  IF c = "TqdmProgressBarLogger"
        THEN [TqdmBarsCallback(e1, bar, attr, value, old_value) EXCEPT !.err = ""]
        ELSE e1
bars_callback(e, c, bar, attr, value, old_value) ==
    LET e1 == [e EXCEPT !.hooks = Append(@, [name |-> "bars_callback",
                            bar |-> bar, attr |-> attr, value |-> value,
                            old_value |-> old_value, kw |-> <<>>])]
    IN  IF c = "TqdmProgressBarLogger"
        THEN TqdmBarsCallback(e1, bar, attr, value, old_value)
        ELSE e1

\* callback of the logger's class, recorded in e.hooks with the keyword
\* arguments it receives and the self.state it can read
callback(e, c) ==
    LET e1 == [e EXCEPT !.hooks = Append(@, [name |-> "callback",
                            bar |-> "", attr |-> "", value |-> None,
                            old_value |-> None, kw |-> e.kw,
                            state |-> e.state, bars |-> e.bars])]
        p == Pos(e.kw, "message")
    IN  IF c = "TqdmProgressBarLogger" /\ p /= 0
             /\ e.kw[p].value /= None /\ e.kw[p].value /= Some("")
        THEN [e1 EXCEPT !.backend = Append(@, [op |-> "write", bar |-> "",
                                    h |-> 0, arg |-> e.kw[p].value])]
        ELSE e1

----------------------------------------------------------------------------
(* ProgressBarLogger.__call__ *)

\* the body of the for loop for one (key, value)
LoopBody(e, ig, c, key, value) ==
    IF ~Contains(key, "__") THEN e
    ELSE
    LET parts == Split(key, "__") IN
    IF Len(parts) /= 2 THEN [e EXCEPT !.err = "ValueError"]
    ELSE
    LET bar == parts[1]
        attr == parts[2]
    IN
    IF ig.kind = "None" THEN [e EXCEPT !.err = "TypeError"]
    ELSE IF InIgnored(bar, ig) THEN e
    ELSE
    LET e1 == [e EXCEPT !.kw = Pop(@, key)]
        e2 == IF bar \notin Keys(e1.bars) /\ ~InIgnored(bar, ig)
              THEN [e1 EXCEPT !.bars = Append(@, [key |-> bar, val |-> NewBar(bar)])]
              ELSE e1
    IN
    IF attr \notin DOMAIN Bar(e2.bars, bar) THEN [e2 EXCEPT !.err = "KeyError"]
    ELSE
    LET old_value == Bar(e2.bars, bar)[attr]
        e3 == [e2 EXCEPT !.bars = SetAttr(@, bar, attr, value)]
    IN bars_callback(e3, c, bar, attr, value, old_value)

RECURSIVE LoopLastFirst(_, _, _, _)
LoopLastFirst(items, e, ig, c) ==
    IF items = <<>> \/ e.err /= "" THEN e
    ELSE LoopLastFirst(SubSeq(items, 1, Len(items) - 1),
                       LoopBody(e, ig, c, items[Len(items)].key,
                                items[Len(items)].value), ig, c)
RECURSIVE Loop(_, _, _, _)
Loop(items, e, ig, c) ==
    IF items = <<>> \/ e.err /= "" THEN e
    ELSE Loop(Tail(items), LoopBody(e, ig, c, Head(items).key, Head(items).value), ig, c)

\* the logger as a record of the fields a call reads and writes
Engine == [state |-> state, bars |-> bars, tqdm_bars |-> tqdm_bars,
           nhandles |-> nhandles, backend |-> backend,
           kw |-> <<>>, hooks |-> <<>>, err |-> ""]

\* ProgressBarLogger.__call__(**kwargs) on engine e
CallWithoutCallback(e, kwargs, ig, c) ==
    LET e0 == [e EXCEPT !.kw = kwargs, !.hooks = <<>>, !.err = ""]
        e1 == Loop(SortedItems(kwargs), e0, ig, c)
    IN  IF e1.err /= "" \/ kwargs = <<>> THEN e1
        ELSE callback([e1 EXCEPT !.state = Update(@, e1.kw)], c)
Call(e, kwargs, ig, c) ==
    LET e0 == [e EXCEPT !.kw = kwargs, !.hooks = <<>>, !.err = ""]
        e1 == Loop(SortedItems(kwargs), e0, ig, c)
    IN  IF e1.err /= "" THEN e1
        ELSE callback([e1 EXCEPT !.state = Update(@, e1.kw)], c)

----------------------------------------------------------------------------
(* Callers' inputs *)

BarNames == <<"main", "all">>

\* the updates a caller of the bar engine may put in a batch
BarItems ==
    << [key |-> "main__index",   value |-> Some(0)],
       [key |-> "main__total",   value |-> Some(2)],
       [key |-> "main__message", value |-> Some("go")],
       [key |-> "all__index",    value |-> Some(0)],
       [key |-> "all__total",    value |-> Some(2)],
       [key |-> "message",       value |-> Some("hello")],
       [key |-> "main__speed",   value |-> Some(1)] >>

\* the sequences of at most n distinct positions of a list of m items
Picks(m, n) ==
    UNION {{f \in [1..k -> 1..m] : \A i, j \in 1..k : i /= j => f[i] /= f[j]} : k \in 0..n}

\* the batch that lists the items at the picked positions, in that order
Batch(items, f) == [i \in 1..Len(f) |-> items[f[i]]]

\* no iter_bar call has returned yet
NoGen == [pc |-> "none", bar |-> "", len |-> 0, haslen |-> FALSE, i |-> None]

\* no iter call has returned yet
NoIter == [pc |-> "none", kw |-> <<>>, f |-> 0, j |-> 0, it |-> None]

\* the logger is not an rq logger
NoRq == [pc |-> "none", meta |-> <<>>, saves |-> 0]

----------------------------------------------------------------------------
(* The bar engine: a ProgressBarLogger receiving calls *)

InitBar ==
    /\ cls = "ProgressBarLogger"
    /\ \/ ignored_bars = IgnoreNone
       \/ ignored_bars = IgnoreStr("all_others")
       \/ ignored_bars = IgnoreSet({"main"})
    /\ state = <<>>
    /\ bars \in {InitBars(<<>>), InitBars(<<"main">>), InitBars(<<"main", "all">>)}
    /\ tqdm_bars = <<>>
    /\ nhandles = 0
    /\ backend = <<>>
    /\ kw = <<>>
    /\ hooks = <<>>
    /\ err = ""
    /\ gen = NoGen
    /\ ncalls = 0
    /\ calls = <<>>
    /\ itr = NoIter
    /\ rq = NoRq

\* logger(**kwargs)
Apply(kwargs) ==
    /\ \E e \in {Call(Engine, kwargs, ignored_bars, cls)} :
        /\ state' = e.state
        /\ bars' = e.bars
        /\ tqdm_bars' = e.tqdm_bars
        /\ nhandles' = e.nhandles
        /\ backend' = e.backend
        /\ hooks' = e.hooks
        /\ err' = e.err
    /\ kw' = kwargs
    /\ UNCHANGED <<cls, ignored_bars, gen, itr, rq>>

ApplyBar ==
    /\ ncalls < MaxCalls
    /\ \E f \in Picks(Len(BarItems), MaxKeys) : Apply(Batch(BarItems, f))
    /\ ncalls' = ncalls + 1
    /\ UNCHANGED calls

NextBar == ApplyBar

SpecBar == InitBar /\ [][NextBar]_vars

----------------------------------------------------------------------------
(* The rendering engine: a TqdmProgressBarLogger(bars=['main']) receiving   *)
(* single-update calls                                                     *)

\* the updates a caller of the rendering engine may send
TqdmItems ==
    [t \in 1..(MaxTotal + 1) |-> [key |-> "main__total", value |-> Some(t - 1)]]
    \o [i \in 1..(MaxTotal + 1) |-> [key |-> "main__index", value |-> Some(i - 1)]]
    \o << [key |-> "main__message", value |-> Some("go")],
          [key |-> "sub__index",    value |-> Some(0)],
          [key |-> "message",       value |-> Some("hello")] >>

InitTqdm ==
    /\ cls = "TqdmProgressBarLogger"
    /\ ignored_bars = IgnoreSet({})
    /\ state = <<>>
    /\ bars = InitBars(<<"main">>)
    /\ tqdm_bars = [b \in Keys(bars) |-> None]
    /\ nhandles = 0
    /\ backend = <<>>
    /\ kw = <<>>
    /\ hooks = <<>>
    /\ err = ""
    /\ gen = NoGen
    /\ ncalls = 0
    /\ calls = <<>>
    /\ itr = NoIter
    /\ rq = NoRq

ApplyTqdm ==
    /\ Len(calls) < MaxTqdmCalls
    /\ \E i \in 1..Len(TqdmItems) :
        /\ Apply(<<TqdmItems[i]>>)
        /\ calls' = Append(calls, <<TqdmItems[i]>>)
    /\ UNCHANGED ncalls

NextTqdm == ApplyTqdm

SpecTqdm == InitTqdm /\ [][NextTqdm]_vars

----------------------------------------------------------------------------
(* ProgressBarLogger.iter_bar.  The iterable is a finite sequence of len   *)
(* elements, the element at position i stands for iterable[i], and haslen  *)
(* tells whether the iterable has a __len__.  gen.pc tells what the        *)
(* consumer holds: "bare" the iterable itself, "ready" the generator       *)
(* new_iterable() before its first next(), "yielded" the generator         *)
(* suspended at its yield with element gen.i, "done" after StopIteration,  *)
(* "raised" after an exception left the generator, "consumed" the bare     *)
(* iterable after its last element.                                        *)

\* the logger fields after the call, and what the caller gets back
iter_bar(e, ig, c, bar, len, haslen) ==
    LET g == [pc |-> "ready", bar |-> bar, len |-> len, haslen |-> haslen, i |-> None]
        total == <<[key |-> bar \o "__total", value |-> Some(len)]>>
    IN  IF ig.kind = "None"
        THEN [e |-> [e EXCEPT !.err = "TypeError"], gen |-> NoGen, kw |-> <<>>]
        ELSE IF InIgnored(bar, ig)
        THEN [e |-> e, gen |-> [g EXCEPT !.pc = "bare"], kw |-> <<>>]
        ELSE IF haslen
        THEN LET e1 == Call(e, total, ig, c) IN
             [e |-> e1, gen |-> IF e1.err = "" THEN g ELSE NoGen, kw |-> total]
        ELSE [e |-> e, gen |-> g, kw |-> <<>>]

\* next() on the generator new_iterable(): run it up to its next yield or
\* to its end; g.i is the generator's local variable i
new_iterableIndexAfterYield(e, ig, c, g) ==
    LET k == IF g.i = None THEN 0 ELSE g.i[1] + 1
        index(v) == <<[key |-> g.bar \o "__index", value |-> Some(v)]>>
    IN  IF k < g.len
        THEN LET e1 == IF k = 0 THEN e ELSE Call(e, index(k - 1), ig, c) IN
             [e |-> e1, kw |-> index(k - 1),
              gen |-> [g EXCEPT !.i = Some(k),
                                !.pc = IF e1.err = "" THEN "yielded" ELSE "raised"]]
        ELSE IF g.i = None
        THEN [e |-> [e EXCEPT !.err = "UnboundLocalError"], kw |-> <<>>,
              gen |-> [g EXCEPT !.pc = "raised"]]
        ELSE LET e1 == Call(e, index(g.i[1] + 1), ig, c) IN
             [e |-> e1, kw |-> index(g.i[1] + 1),
              gen |-> [g EXCEPT !.pc = IF e1.err = "" THEN "done" ELSE "raised"]]
new_iterable(e, ig, c, g) ==
    LET k == IF g.i = None THEN 0 ELSE g.i[1] + 1
        index(v) == <<[key |-> g.bar \o "__index", value |-> Some(v)]>>
    IN  IF k < g.len
        THEN LET e1 == Call(e, index(k), ig, c) IN
             [e |-> e1, kw |-> index(k),
              gen |-> [g EXCEPT !.i = Some(k),
                                !.pc = IF e1.err = "" THEN "yielded" ELSE "raised"]]
        ELSE IF g.i = None
        THEN [e |-> [e EXCEPT !.err = "UnboundLocalError"], kw |-> <<>>,
              gen |-> [g EXCEPT !.pc = "raised"]]
        ELSE LET e1 == Call(e, index(g.i[1] + 1), ig, c) IN
             [e |-> e1, kw |-> index(g.i[1] + 1),
              gen |-> [g EXCEPT !.pc = IF e1.err = "" THEN "done" ELSE "raised"]]

\* the logger fields become those of r.e
Becomes(r) ==
    /\ state' = r.e.state
    /\ bars' = r.e.bars
    /\ tqdm_bars' = r.e.tqdm_bars
    /\ nhandles' = r.e.nhandles
    /\ backend' = r.e.backend
    /\ hooks' = r.e.hooks
    /\ err' = r.e.err
    /\ kw' = r.kw
    /\ gen' = r.gen

\* logger.iter_bar(bar=iterable), once per logger
IterBar ==
    /\ gen.pc = "none" /\ err = ""
    /\ \E i \in 1..Len(BarNames), len \in 0..MaxLen, haslen \in BOOLEAN :
        \E r \in {iter_bar(Engine, ignored_bars, cls, BarNames[i], len, haslen)} :
            Becomes(r)
    /\ UNCHANGED <<cls, ignored_bars, ncalls, calls, itr, rq>>

\* the consumer pulls the next element from the generator
GenNext ==
    /\ gen.pc \in {"ready", "yielded"}
    /\ \E r \in {new_iterable(Engine, ignored_bars, cls, gen)} : Becomes(r)
    /\ UNCHANGED <<cls, ignored_bars, ncalls, calls, itr, rq>>

\* the consumer pulls the next element from the iterable it got back
BareNext ==
    /\ gen.pc = "bare"
    /\ LET k == IF gen.i = None THEN 0 ELSE gen.i[1] + 1 IN
        gen' = IF k < gen.len THEN [gen EXCEPT !.i = Some(k)]
               ELSE [gen EXCEPT !.pc = "consumed"]
    /\ UNCHANGED <<cls, ignored_bars, state, bars, tqdm_bars, nhandles, backend,
                   kw, hooks, err, ncalls, calls, itr, rq>>

NextIter == IterBar \/ GenNext \/ BareNext

SpecIter == InitBar /\ [][NextIter]_vars

----------------------------------------------------------------------------
(* A logger that ignores no bar, ProgressBarLogger(ignored_bars=[]) or     *)
(* TqdmProgressBarLogger(), receiving batches.  The index None is an       *)
(* update whose bars_callback raises in the rendering engine: line 238     *)
(* compares it with the old index.                                         *)

TrackItems ==
    << [key |-> "main__index",   value |-> Some(0)],
       [key |-> "main__total",   value |-> Some(2)],
       [key |-> "main__message", value |-> Some("go")],
       [key |-> "all__index",    value |-> None],
       [key |-> "all__total",    value |-> Some(2)],
       [key |-> "message",       value |-> Some("hello")],
       [key |-> "main__speed",   value |-> Some(1)] >>

InitTrack ==
    /\ cls \in {"ProgressBarLogger", "TqdmProgressBarLogger"}
    /\ ignored_bars = IgnoreSet({})
    /\ state = <<>>
    /\ bars \in {InitBars(<<>>), InitBars(<<"main">>), InitBars(<<"main", "all">>)}
    /\ tqdm_bars = IF cls = "TqdmProgressBarLogger"
                   THEN [b \in Keys(bars) |-> None] ELSE <<>>
    /\ nhandles = 0
    /\ backend = <<>>
    /\ kw = <<>>
    /\ hooks = <<>>
    /\ err = ""
    /\ gen = NoGen
    /\ ncalls = 0
    /\ calls = <<>>
    /\ itr = NoIter
    /\ rq = NoRq

ApplyTrack ==
    /\ ncalls < MaxCalls
    /\ \E f \in Picks(Len(TrackItems), MaxKeys) : Apply(Batch(TrackItems, f))
    /\ ncalls' = ncalls + 1
    /\ UNCHANGED calls

NextTrack == ApplyTrack

SpecTrack == InitTrack /\ [][NextTrack]_vars

----------------------------------------------------------------------------
(* ProgressLogger.iter.  The keyword arguments are a sequence of           *)
(* [key, value] items whose value is the iterable, a finite sequence.      *)
(* itr.pc tells what the consumer holds: "ready" the generator before its  *)
(* first next(), "yielded" the generator suspended at its yield with       *)
(* element itr.it, "done" after StopIteration, "raised" after an           *)
(* exception left the generator.  itr.f and itr.j are the positions of the *)
(* two for loops: the item of kw and the element of its iterable.          *)

\* ProgressLogger.__call__(**kwargs) on engine e
ProgressLoggerCall(e, kwargs, c) ==
    callback([e EXCEPT !.kw = kwargs, !.hooks = <<>>, !.err = "",
                       !.state = Update(@, kwargs)], c)

\* self(**kwargs): the __call__ of the logger's class
SelfCall(e, kwargs, ig, c) ==
    IF c = "ProgressLogger" THEN ProgressLoggerCall(e, kwargs, c)
    ELSE Call(e, kwargs, ig, c)

\* the loop positions of the first element after element j of item f;
\* f is past the last item when there is none
RECURSIVE NextElement(_, _, _)
NextElement(kwargs, f, j) ==
    IF f > Len(kwargs) THEN [f |-> f, j |-> 0]
    ELSE IF j < Len(kwargs[f].value) THEN [f |-> f, j |-> j + 1]
    ELSE NextElement(kwargs, f + 1, 0)

\* next() on the generator iter(**kw): run it up to its next yield or to
\* its end
iterCallAfterYield(e, ig, c, g) ==
    LET n == NextElement(g.kw, IF g.f = 0 THEN 1 ELSE g.f, g.j)
        call == IF g.pc = "yielded"
                THEN <<[key |-> g.kw[g.f].key, value |-> g.it]>> ELSE <<>>
        e1 == IF g.pc = "yielded" THEN SelfCall(e, call, ig, c) ELSE e
    IN  IF n.f > Len(g.kw)
        THEN [e |-> e1, kw |-> call, gen |-> [g EXCEPT !.pc = "done"]]
        ELSE [e |-> e1, kw |-> call,
              gen |-> [g EXCEPT !.f = n.f, !.j = n.j,
                                !.it = Some(g.kw[n.f].value[n.j]),
                                !.pc = "yielded"]]
iter(e, ig, c, g) ==
    LET n == NextElement(g.kw, IF g.f = 0 THEN 1 ELSE g.f, g.j)
    IN  IF n.f > Len(g.kw)
        THEN [e |-> e, kw |-> <<>>, gen |-> [g EXCEPT !.pc = "done"]]
        ELSE LET field == g.kw[n.f].key
                 it == g.kw[n.f].value[n.j]
                 call == <<[key |-> field, value |-> Some(it)]>>
                 e1 == SelfCall(e, call, ig, c)
             IN  [e |-> e1, kw |-> call,
                  gen |-> IF e1.err = ""
                          THEN [g EXCEPT !.f = n.f, !.j = n.j, !.it = Some(it),
                                         !.pc = "yielded"]
                          ELSE [g EXCEPT !.f = n.f, !.j = n.j, !.pc = "raised"]]

\* the field names and the elements a caller of iter may use
IterFields == <<"user", "job">>
IterElements == {"tom", "tim"}

\* the iterables of at most MaxLen elements
Iterables == UNION {[1..n -> IterElements] : n \in 0..MaxLen}

\* the keyword arguments of an iter call: at most MaxFields named iterables
IterKwargs ==
    UNION {{[i \in 1..Len(f) |-> [key |-> IterFields[f[i]], value |-> v[i]]] :
                v \in [1..Len(f) -> Iterables]} :
           f \in Picks(Len(IterFields), MaxFields)}

\* ProgressLogger(init_state)
InitPlain ==
    /\ cls = "ProgressLogger"
    /\ ignored_bars = IgnoreNone
    /\ state \in {<<>>, Update(<<>>, <<[key |-> "user", value |-> Some("lea")]>>)}
    /\ bars = <<>>
    /\ tqdm_bars = <<>>
    /\ nhandles = 0
    /\ backend = <<>>
    /\ kw = <<>>
    /\ hooks = <<>>
    /\ err = ""
    /\ gen = NoGen
    /\ ncalls = 0
    /\ calls = <<>>
    /\ itr = NoIter
    /\ rq = NoRq

\* logger.iter(**kw), once per logger: the body runs at the first next()
Iter ==
    /\ itr.pc = "none"
    /\ \E k \in IterKwargs : itr' = [NoIter EXCEPT !.pc = "ready", !.kw = k]
    /\ UNCHANGED <<cls, ignored_bars, state, bars, tqdm_bars, nhandles, backend,
                   kw, hooks, err, gen, ncalls, calls, rq>>

\* the consumer pulls the next element from the generator
IterNext ==
    /\ itr.pc \in {"ready", "yielded"}
    /\ \E r \in {iter(Engine, ignored_bars, cls, itr)} :
        /\ state' = r.e.state
        /\ bars' = r.e.bars
        /\ tqdm_bars' = r.e.tqdm_bars
        /\ nhandles' = r.e.nhandles
        /\ backend' = r.e.backend
        /\ hooks' = r.e.hooks
        /\ err' = r.e.err
        /\ kw' = r.kw
        /\ itr' = r.gen
    /\ UNCHANGED <<cls, ignored_bars, gen, ncalls, calls, rq>>

NextLoop == Iter \/ IterNext

SpecLoop == (InitPlain \/ InitBar) /\ [][NextLoop]_vars

----------------------------------------------------------------------------
(* RqWorkerProgressLogger(job) and RqWorkerBarLogger(job, init_state,      *)
(* bars, ignored_bars).  rq.pc is "new" before the constructor is called,  *)
(* "constructed" when it has returned and "raised" when an exception has   *)
(* left it.  rq.meta is job.meta, rq.saves the number of job.save() calls, *)
(* rq.args the arguments of the constructor.  An __init__ frame deeper     *)
(* than MaxDepth exceeds the interpreter's recursion limit.                *)

\* the arguments of the call RqWorkerBarLogger.__init__(self, job)
DefaultArgs == [init_state |-> None, bars |-> None, ignored_bars |-> IgnoreSet({})]

\* RqWorkerProgressLogger.__init__(self, job) on the rq record r
RqWorkerProgressLogger_init(r) ==
    IF "progress_data" \notin DOMAIN r.meta
    THEN [r EXCEPT !.meta = [k \in DOMAIN @ \cup {"progress_data"} |->
                                IF k = "progress_data" THEN <<>> ELSE @[k]],
                   !.saves = @ + 1]
    ELSE r

\* RqWorkerBarLogger.__init__(self, job, init_state, bars, ignored_bars) in
\* a frame at the given depth: the error it raises ("" when it returns)
\* and the rq record it leaves
RECURSIVE RqWorkerBarLogger_init(_, _, _)
RqWorkerBarLogger_init(r, args, depth) ==
    IF depth > MaxDepth THEN [err |-> "RecursionError", rq |-> r]
    ELSE LET inner == RqWorkerBarLogger_init(r, DefaultArgs, depth + 1) IN
         IF inner.err /= "" THEN inner
         ELSE \* ProgressBarLogger.__init__ called without self
              [err |-> "TypeError", rq |-> inner.rq]

\* the job.meta and the ignored_bars arguments a caller may pass
RqMetas == <<<<>>, [progress_data |-> <<>>], [owner |-> <<"tom">>]>>
RqPolicies == <<IgnoreSet({}), IgnoreNone, IgnoreStr("all_others"), IgnoreSet({"main"})>>

\* the job's meta and the constructor arguments before the logger is built
InitRq ==
    /\ cls \in {"RqWorkerProgressLogger", "RqWorkerBarLogger"}
    /\ \E m \in 1..Len(RqMetas),
          s \in {None, Some(Update(<<>>, <<[key |-> "user", value |-> Some("lea")]>>))},
          b \in {None, Some(<<"main">>), Some(<<"main", "all">>)},
          i \in 1..Len(RqPolicies) :
        rq = [pc |-> "new", meta |-> RqMetas[m], saves |-> 0,
              args |-> [init_state |-> s, bars |-> b,
                        ignored_bars |-> RqPolicies[i]]]
    /\ ignored_bars = IgnoreNone
    /\ state = <<>>
    /\ bars = <<>>
    /\ tqdm_bars = <<>>
    /\ nhandles = 0
    /\ backend = <<>>
    /\ kw = <<>>
    /\ hooks = <<>>
    /\ err = ""
    /\ gen = NoGen
    /\ ncalls = 0
    /\ calls = <<>>
    /\ itr = NoIter

\* logger = RqWorkerProgressLogger(job), or
\* logger = RqWorkerBarLogger(job, init_state, bars, ignored_bars)
RqConstruct ==
    /\ rq.pc = "new"
    /\ \E r \in {IF cls = "RqWorkerProgressLogger"
                  THEN [err |-> "", rq |-> RqWorkerProgressLogger_init(rq)]
                  ELSE RqWorkerBarLogger_init(rq, rq.args, 1)} :
        /\ err' = r.err
        /\ rq' = [r.rq EXCEPT !.pc = IF r.err = "" THEN "constructed" ELSE "raised"]
    /\ UNCHANGED <<cls, ignored_bars, state, bars, tqdm_bars, nhandles, backend,
                   kw, hooks, gen, ncalls, calls, itr>>

NextRq == RqConstruct

SpecRq == InitRq /\ [][NextRq]_vars

----------------------------------------------------------------------------
(* Vocabulary of the properties *)

BarAttrs == {"index", "total", "message"}

\* key is a composite key barname__attribute with a bar attribute
IsBarKey(key) ==
    /\ Contains(key, "__")
    /\ Len(Split(key, "__")) = 2
    /\ Split(key, "__")[2] \in BarAttrs

KeyBar(key) == Split(key, "__")[1]
KeyAttr(key) == Split(key, "__")[2]

\* every composite key of the batch is a bar-attribute update
WellFormed(items) ==
    \A i \in 1..Len(items) : Contains(items[i].key, "__") => IsBarKey(items[i].key)

IsBarHook(h) == h.name = "bars_callback"
HookKey(h) == h.bar \o "__" \o h.attr

\* bar b has the same presence and record in registries bs1 and bs2
SameBar(bs1, bs2, b) ==
    /\ b \in Keys(bs1) <=> b \in Keys(bs2)
    /\ b \in Keys(bs1) => Bar(bs1, b) = Bar(bs2, b)

----------------------------------------------------------------------------
(* C1: within one call of the bar engine, every bars_callback for a total  *)
(* attribute comes before every bars_callback for another attribute, and   *)
(* the bars_callback invocations for non-total keys come in the order the  *)
(* caller wrote the keys.                                                  *)
C1_TotalHooksFirst ==
    \A i, j \in 1..Len(hooks) :
        (i < j /\ IsBarHook(hooks[i]) /\ IsBarHook(hooks[j])) =>
            /\ hooks[j].attr = "total" => hooks[i].attr = "total"
            /\ (hooks[i].attr /= "total" /\ hooks[j].attr /= "total") =>
                   Pos(kw, HookKey(hooks[i])) < Pos(kw, HookKey(hooks[j]))

\* a call that listed an index key before a total key, both applied
C1_Witness ==
    /\ Len(hooks) >= 2
    /\ IsBarHook(hooks[1]) /\ hooks[1].attr = "total"
    /\ IsBarHook(hooks[2]) /\ hooks[2].attr = "index"
    /\ Pos(kw, HookKey(hooks[2])) < Pos(kw, HookKey(hooks[1]))

(* C2: with ignored_bars = 'all_others', no call adds a bar name to the    *)
(* registry and no call of well-formed updates raises.                     *)
C2_AllOthersNeverAdds ==
    [][(ignored_bars.kind = "str" /\ ignored_bars.val = "all_others"
            /\ WellFormed(kw')) =>
            /\ Keys(bars') \subseteq Keys(bars)
            /\ err' = ""]_vars

(* C3: with ignored_bars = None every bar-attribute update is applied       *)
(* without error: after the call the bar exists and holds the value.       *)
C3_NoneTracksEveryBar ==
    (ignored_bars.kind = "None" /\ WellFormed(kw)) =>
        \A i \in 1..Len(kw) :
            IsBarKey(kw[i].key) =>
                /\ err = ""
                /\ KeyBar(kw[i].key) \in Keys(bars)
                /\ Bar(bars, KeyBar(kw[i].key))[KeyAttr(kw[i].key)] = kw[i].value

\* every item of the batch is a composite key of a bar the engine ignores
OnlyIgnored(items) ==
    /\ Len(items) > 0
    /\ ignored_bars.kind /= "None"
    /\ \A i \in 1..Len(items) :
        /\ Contains(items[i].key, "__")
        /\ Len(Split(items[i].key, "__")) = 2
        /\ InIgnored(KeyBar(items[i].key), ignored_bars)

(* C9 as stated: with ignored_bars a list of names, an update for a bar    *)
(* whose name is in the list creates or mutates the bar and an update for  *)
(* a bar whose name is not in the list leaves the registry alone.          *)
C9_ListIsWhitelist ==
    [][(ignored_bars.kind = "set" /\ WellFormed(kw')) =>
        \A i \in 1..Len(kw') :
            IsBarKey(kw'[i].key) =>
                LET b == KeyBar(kw'[i].key)
                    a == KeyAttr(kw'[i].key)
                IN  IF b \in ignored_bars.val
                    THEN b \in Keys(bars') /\ Bar(bars', b)[a] = kw'[i].value
                    ELSE SameBar(bars, bars', b)]_vars

(* C9 amended: with ignored_bars a list of names, an update for a bar      *)
(* whose name is NOT in the list creates or mutates the bar, and an update *)
(* for a bar whose name is in the list leaves the registry alone.          *)
C9_ListIsBlacklist ==
    [][(ignored_bars.kind = "set" /\ WellFormed(kw')) =>
        \A i \in 1..Len(kw') :
            IsBarKey(kw'[i].key) =>
                LET b == KeyBar(kw'[i].key)
                    a == KeyAttr(kw'[i].key)
                IN  IF b \notin ignored_bars.val
                    THEN b \in Keys(bars') /\ Bar(bars', b)[a] = kw'[i].value
                    ELSE SameBar(bars, bars', b)]_vars

\* one call updated a listed bar and an unlisted new bar: only the unlisted
\* one was created
C9_Witness ==
    /\ ignored_bars.kind = "set"
    /\ ncalls = 1
    /\ Keys(kw) = {"main__index", "all__index"}
    /\ "main" \in ignored_bars.val /\ "main" \notin Keys(bars)
    /\ "all" \notin ignored_bars.val /\ "all" \in Keys(bars)
    /\ Bar(bars, "all").index = Some(0)

(* C10: a call whose updates all name bars the engine ignores changes      *)
(* neither the registry nor any plain state field, fires no bars_callback  *)
(* and raises nothing.                                                     *)
C10_IgnoredUpdateDropped ==
    [][OnlyIgnored(kw') =>
            /\ bars' = bars
            /\ state' = state
            /\ \A i \in 1..Len(hooks') : ~IsBarHook(hooks'[i])
            /\ err' = ""]_vars

----------------------------------------------------------------------------
(* Properties of the rendering engine *)

\* the calls of kind op that tqdm received for bar b, in order
BackendCalls(log, b, op) == SelectSeq(log, LAMBDA c : c.bar = b /\ c.op = op)

RECURSIVE SumArgs(_)
SumArgs(log) == IF log = <<>> THEN 0 ELSE Head(log).arg[1] + SumArgs(Tail(log))

\* logger(main__total=T), then logger(main__index=i) for i = 0..T
Scenario(T) ==
    << <<[key |-> "main__total", value |-> Some(T)]>> >>
    \o [i \in 1..(T + 1) |-> <<[key |-> "main__index", value |-> Some(i - 1)]>>]

(* C6: for the pre-declared bar main, after logger(main__total=T), T >= 1,  *)
(* and logger(main__index=i) for i = 0..T, tqdm has closed the bar exactly *)
(* once, in the last call (no close before it), and the advances sum to T. *)
C6_ScenarioClosesOnce ==
    \A T \in 1..MaxTotal : \A k \in 0..(T + 2) :
        calls = SubSeq(Scenario(T), 1, k) =>
            /\ Len(BackendCalls(backend, "main", "close")) = (IF k = T + 2 THEN 1 ELSE 0)
            /\ k = T + 2 =>
                /\ backend[Len(backend)].op = "close"
                /\ SumArgs(BackendCalls(backend, "main", "advance")) = T

\* the scenario has been run to its end for a total of 2
C6_Witness ==
    /\ calls = Scenario(2)
    /\ Bar(bars, "main").index = Some(2)
    /\ Len(BackendCalls(backend, "main", "close")) = 1

(* C7: a call logger(bar__index=v) with v lower than the bar's index makes  *)
(* tqdm receive exactly: close of the bar's tqdm object when it has one,   *)
(* create of a new one, advance by v + 1 on the new one.                   *)
C7_RestartCalls ==
    [][\A b \in Keys(bars) :
        (/\ Len(kw') = 1
         /\ kw'[1].key = b \o "__index"
         /\ kw'[1].value[1] < Bar(bars, b).index[1]
         /\ calls' /= calls) =>
            LET new == SubSeq(backend', Len(backend) + 1, Len(backend'))
                old == tqdm_bars[b]
                create == [op |-> "create", bar |-> b, h |-> nhandles + 1,
                           arg |-> Bar(bars, b).total]
                advance == [op |-> "advance", bar |-> b, h |-> nhandles + 1,
                            arg |-> Some(kw'[1].value[1] + 1)]
            IN  IF old /= None
                THEN new = << [op |-> "close", bar |-> b, h |-> old[1], arg |-> None],
                              create, advance >>
                ELSE new = << create, advance >>]_vars

(* C8: every advance, set_message and close is issued on a tqdm object     *)
(* that was created and not closed since, and after a close the next call  *)
(* for that bar is a create.                                               *)
C8_HandleProtocol ==
    \A j \in 1..Len(backend) :
        /\ backend[j].op \in {"advance", "set_message", "close"} =>
            /\ \E i \in 1..(j - 1) :
                /\ backend[i].op = "create"
                /\ backend[i].h = backend[j].h
                /\ backend[i].bar = backend[j].bar
            /\ \A i \in 1..(j - 1) :
                ~(backend[i].op = "close" /\ backend[i].h = backend[j].h)
        /\ backend[j].op = "create" =>
            \A i \in 1..(j - 1) : backend[i].h /= backend[j].h
        /\ backend[j].op = "close" =>
            \A k \in (j + 1)..Len(backend) :
                (/\ backend[k].bar = backend[j].bar
                 /\ \A m \in (j + 1)..(k - 1) : backend[m].bar /= backend[j].bar)
                    => backend[k].op = "create"

\* a bar was closed, then created again and advanced
C8_Witness ==
    \E i, j, k \in 1..Len(backend) :
        /\ i < j /\ j < k
        /\ backend[i].op = "close" /\ backend[i].bar = "main"
        /\ backend[j].op = "create" /\ backend[j].bar = "main"
        /\ backend[k].op = "advance" /\ backend[k].h = backend[j].h

----------------------------------------------------------------------------
(* Properties of iter_bar *)

BarHooks(hs) == SelectSeq(hs, IsBarHook)

(* C4: for a tracked bar and a sequence with a __len__ of N elements,      *)
(* iter_bar applies the total update N when it is called, before any index *)
(* update, and no other total update later; each next() applies exactly    *)
(* the index update of the position of the element it yields, positions    *)
(* going 0, 1, 2, ..., so at each yield the bar's index is that position.  *)
C4_IterBarOrder ==
    [][/\ (gen.pc = "none" /\ gen'.pc = "ready" /\ gen'.haslen) =>
            /\ Len(BarHooks(hooks')) = 1
            /\ BarHooks(hooks')[1].bar = gen'.bar
            /\ BarHooks(hooks')[1].attr = "total"
            /\ BarHooks(hooks')[1].value = Some(gen'.len)
            /\ Bar(bars', gen'.bar).total = Some(gen'.len)
       /\ (gen.pc \in {"ready", "yielded"} /\ gen'.pc = "yielded") =>
            /\ gen'.i = (IF gen.pc = "ready" THEN Some(0) ELSE Some(gen.i[1] + 1))
            /\ gen'.i[1] < gen.len
            /\ Len(BarHooks(hooks')) = 1
            /\ BarHooks(hooks')[1].bar = gen.bar
            /\ BarHooks(hooks')[1].attr = "index"
            /\ BarHooks(hooks')[1].value = gen'.i
            /\ Bar(bars', gen.bar).index = gen'.i
            /\ gen.haslen => Bar(bars', gen.bar).total = Some(gen.len)]_vars

\* the second element of a sequence with a __len__ has been yielded
C4_Witness ==
    /\ gen.pc = "yielded"
    /\ gen.haslen
    /\ gen.i = Some(1)
    /\ Bar(bars, gen.bar).index = Some(1)

(* C5: once the generator iter_bar returned for a sequence with a __len__   *)
(* of N >= 0 elements has been run to its end, it has ended normally and   *)
(* the bar's index is N.                                                   *)
C5_ExhaustionEndsAtN ==
    (gen.pc \in {"done", "raised"} /\ gen.haslen) =>
        /\ gen.pc = "done"
        /\ err = ""
        /\ Bar(bars, gen.bar).index = Some(gen.len)

----------------------------------------------------------------------------
(* C11: with ignored_bars = 'all_others', a bar that was in the registry   *)
(* at construction stays tracked whatever its name: an index, total or     *)
(* message update for it sets the attribute of its record and fires        *)
(* bars_callback for it.                                                   *)
C11_PresentBarStaysTracked ==
    [][(ignored_bars.kind = "str" /\ ignored_bars.val = "all_others"
            /\ ncalls = 0 /\ WellFormed(kw')) =>
        \A i \in 1..Len(kw') :
            (IsBarKey(kw'[i].key) /\ KeyBar(kw'[i].key) \in Keys(bars)) =>
                /\ Bar(bars', KeyBar(kw'[i].key))[KeyAttr(kw'[i].key)]
                       = kw'[i].value
                /\ \E h \in 1..Len(hooks') :
                       /\ IsBarHook(hooks'[h])
                       /\ HookKey(hooks'[h]) = kw'[i].key]_vars

----------------------------------------------------------------------------
(* C12: a call holding an update of a bar attribute other than index,      *)
(* total and message raises, and leaves the registry and the plain state   *)
(* fields as they were before the call.                                    *)
C12_UnknownAttrLeavesState ==
    [][(\E i \in 1..Len(kw') :
            /\ Contains(kw'[i].key, "__")
            /\ Len(Split(kw'[i].key, "__")) = 2
            /\ KeyAttr(kw'[i].key) \notin BarAttrs) =>
        /\ err' /= ""
        /\ bars' = bars
        /\ state' = state]_vars

----------------------------------------------------------------------------
(* C13: under every ignore policy a call with no keyword argument leaves   *)
(* the plain state and the registry unchanged, fires no bars_callback,     *)
(* raises nothing, and invokes callback exactly once with no argument.     *)
C13_EmptyBatchNoOp ==
    [][(ncalls' = ncalls + 1 /\ kw' = <<>>) =>
        /\ state' = state
        /\ bars' = bars
        /\ err' = ""
        /\ Len(hooks') = 1
        /\ hooks'[1].name = "callback"
        /\ hooks'[1].kw = <<>>]_vars

\* the empty call was made on a logger built with ignored_bars=None
C13_Witness ==
    /\ ncalls = 1 /\ kw = <<>>
    /\ ignored_bars.kind = "None"
    /\ Len(hooks) = 1 /\ hooks[1].name = "callback"
    /\ err = ""

----------------------------------------------------------------------------
(* Properties of iter *)

\* the elements of all the iterables of an iter call, in iteration order
RECURSIVE Flat(_)
Flat(kwargs) ==
    IF kwargs = <<>> THEN <<>> ELSE Head(kwargs).value \o Flat(Tail(kwargs))

\* the number of elements the generator g has yielded
Rank(g) == IF g.f = 0 THEN 0 ELSE Len(Flat(SubSeq(g.kw, 1, g.f - 1))) + g.j

(* C14: iter yields the elements of the sequence unmodified and in order;  *)
(* calling iter applies no update; each next() that yields an element      *)
(* applies exactly the update {name: element} before the yield, so at the  *)
(* yield state[name] is the element, also for callback; the next() that    *)
(* ends the iteration applies no update.                                   *)
C14_IterUpdatesThenYields ==
    [][/\ itr'.pc = "ready" => (state' = state /\ hooks' = hooks)
       /\ itr'.pc = "yielded" =>
            LET field == itr'.kw[itr'.f].key IN
            /\ Rank(itr') = Rank(itr) + 1
            /\ itr'.it = Some(Flat(itr'.kw)[Rank(itr')])
            /\ kw' = <<[key |-> field, value |-> itr'.it]>>
            /\ Len(hooks') = 1
            /\ hooks'[1].name = "callback"
            /\ hooks'[1].kw = kw'
            /\ hooks'[1].state[field] = itr'.it
            /\ state'[field] = itr'.it
            /\ DOMAIN state' = DOMAIN state \cup {field}
            /\ \A k \in DOMAIN state \ {field} : state'[k] = state[k]
       /\ itr'.pc = "done" =>
            /\ Rank(itr) = Len(Flat(itr.kw))
            /\ state' = state
            /\ hooks' = <<>>
       /\ itr'.pc /= "raised"]_vars

\* the second element of user=['tom', 'tim'] is being yielded by a logger
\* whose state held another user at construction
C14_Witness ==
    /\ cls = "ProgressLogger"
    /\ itr.pc = "yielded"
    /\ itr.kw = <<[key |-> "user", value |-> <<"tom", "tim">>]>>
    /\ itr.j = 2
    /\ itr.it = Some("tim")
    /\ state["user"] = Some("tim")

----------------------------------------------------------------------------
(* C15: under every ignore policy, iter_bar called with a bar name that    *)
(* bar_is_ignored reports as ignored hands back the iterable itself,       *)
(* raises nothing and changes neither the plain state nor the registry     *)
(* nor fires a hook, at the call and while the iterable is consumed; and   *)
(* called with a bar name that is not ignored it does not hand back the    *)
(* iterable itself.                                                        *)
C15_IterBarFollowsPolicy ==
    [][/\ (gen.pc = "none" /\ gen'.pc /= "none") =>
            IF bar_is_ignored(gen'.bar, ignored_bars, bars)
            THEN /\ gen'.pc = "bare"
                 /\ err' = ""
                 /\ state' = state
                 /\ bars' = bars
                 /\ hooks' = <<>>
            ELSE gen'.pc /= "bare"
       /\ gen.pc = "bare" =>
            (state' = state /\ bars' = bars /\ hooks' = hooks /\ err' = err)]_vars

----------------------------------------------------------------------------
(* C16: constructing an RqWorkerBarLogger completes: the constructor       *)
(* returns without raising, so that the logger exists and its later calls  *)
(* can save the job.                                                       *)
C16_RqConstructionCompletes ==
    cls = "RqWorkerBarLogger" => rq.pc /= "raised"

----------------------------------------------------------------------------
(* C17: in the rendering engine, an index update of a tracked bar that     *)
(* does not go backwards (new index >= old index, the old index of a bar   *)
(* created by the update being -1) makes tqdm close the bar, without       *)
(* advancing it, when the bar's total is an integer (0 included) and the   *)
(* new index has reached it; otherwise it makes tqdm advance the bar       *)
(* exactly once, by new index - old index, and not close it.               *)
C17_ForwardIndexClosesOrAdvances ==
    [][(Len(kw') = 1 /\ IsBarKey(kw'[1].key) /\ KeyAttr(kw'[1].key) = "index"
            /\ Len(calls') = Len(calls) + 1) =>
        LET b == KeyBar(kw'[1].key)
            new == kw'[1].value[1]
            old == IF b \in Keys(bars) THEN Bar(bars, b).index[1] ELSE -1
            total == IF b \in Keys(bars) THEN Bar(bars, b).total ELSE None
            added == SubSeq(backend', Len(backend) + 1, Len(backend'))
            closes == BackendCalls(added, b, "close")
            advances == BackendCalls(added, b, "advance")
        IN  new >= old =>
                IF total /= None /\ new >= total[1]
                THEN Len(closes) = 1 /\ advances = <<>>
                ELSE /\ closes = <<>>
                     /\ Len(advances) = 1
                     /\ advances[1].arg = Some(new - old)]_vars

----------------------------------------------------------------------------
(* C18: a call with a single accepted bar-attribute update (b, a) sets     *)
(* attribute a of bar b and changes nothing else: the other attributes of  *)
(* b keep their values (those of a new record when the update creates b),  *)
(* the other bars and the plain state fields are unchanged; for a message  *)
(* update, tqdm receives one set_postfix and neither an update nor a       *)
(* close.                                                                  *)
C18_UpdateTouchesOneAttribute ==
    [][(Len(kw') = 1 /\ IsBarKey(kw'[1].key) /\ Len(calls') = Len(calls) + 1) =>
        LET b == KeyBar(kw'[1].key)
            a == KeyAttr(kw'[1].key)
            before == IF b \in Keys(bars) THEN Bar(bars, b) ELSE NewBar(b)
            added == SubSeq(backend', Len(backend) + 1, Len(backend'))
        IN  /\ err' = ""
            /\ Keys(bars') = Keys(bars) \cup {b}
            /\ Bar(bars', b)[a] = kw'[1].value
            /\ \A x \in DOMAIN before \ {a} : Bar(bars', b)[x] = before[x]
            /\ \A o \in Keys(bars) \ {b} : Bar(bars', o) = Bar(bars, o)
            /\ state' = state
            /\ a = "message" =>
                /\ Len(BackendCalls(added, b, "set_message")) = 1
                /\ BackendCalls(added, b, "advance") = <<>>
                /\ BackendCalls(added, b, "close") = <<>>]_vars

\* a message update reached a bar whose index, total and an earlier plain
\* field were set; another bar exists
C18_Witness ==
    /\ Len(calls) = 4
    /\ kw = <<[key |-> "main__message", value |-> Some("go")]>>
    /\ Bar(bars, "main").message = Some("go")
    /\ Bar(bars, "main").total = Some(2)
    /\ "sub" \in Keys(bars)
    /\ "message" \in DOMAIN state
    /\ backend[Len(backend)].op = "set_message"

----------------------------------------------------------------------------
(* Properties of the registry order *)

\* the bar names of a registry, in its order
KeySeq(bs) == [i \in 1..Len(bs) |-> bs[i].key]

\* the positions of the items of a batch that update bar b
Refs(items, b) ==
    {i \in 1..Len(items) :
        Contains(items[i].key, "__") /\ Split(items[i].key, "__")[1] = b}

\* the position of the first item of the batch that updates bar b
FirstRef(items, b) ==
    CHOOSE i \in Refs(items, b) : \A j \in Refs(items, b) : i <= j

\* the turn of item i of a batch in the call: keys ending in 'total' first,
\* then the other keys, each group in the order of the batch
Turn(items, i) ==
    IF EndsWith(items[i].key, "total") THEN i ELSE Len(items) + i

\* the first turn of an item that updates bar b
FirstTurn(items, b) ==
    CHOOSE t \in {Turn(items, i) : i \in Refs(items, b)} :
        \A i \in Refs(items, b) : t <= Turn(items, i)

----------------------------------------------------------------------------
(* C20: a call that succeeds invokes callback exactly once, after every    *)
(* bars_callback, when every bar update of the batch is in the registry    *)
(* and every plain key is in the state, which callback therefore sees as   *)
(* the call leaves them; a call in which bars_callback raises (the         *)
(* rendering engine given the index None) raises, and a call that raises   *)
(* does not invoke callback and merges no plain key.                       *)
C20_CallbackLastAndOnce ==
    [][ncalls' = ncalls + 1 =>
        LET n == Len(hooks')
            cbs == {h \in 1..n : hooks'[h].name = "callback"}
            raising == /\ cls = "TqdmProgressBarLogger"
                       /\ \E i \in 1..Len(kw') :
                            /\ IsBarKey(kw'[i].key)
                            /\ KeyAttr(kw'[i].key) = "index"
                            /\ kw'[i].value = None
        IN  /\ raising => err' /= ""
            /\ IF err' = ""
               THEN /\ cbs = {n}
                    /\ hooks'[n].state = state'
                    /\ hooks'[n].bars = bars'
                    /\ \A i \in 1..Len(kw') :
                        IF IsBarKey(kw'[i].key)
                        THEN /\ Bar(bars', KeyBar(kw'[i].key))[KeyAttr(kw'[i].key)]
                                    = kw'[i].value
                             /\ \E h \in 1..(n - 1) :
                                    /\ IsBarHook(hooks'[h])
                                    /\ HookKey(hooks'[h]) = kw'[i].key
                        ELSE state'[kw'[i].key] = kw'[i].value
               ELSE /\ cbs = {}
                    /\ state' = state]_vars

\* bars_callback raised in a call that also carried a plain key: the bar
\* record was written, callback was not invoked, the plain key not merged
C20_Witness ==
    /\ cls = "TqdmProgressBarLogger"
    /\ ncalls = 1
    /\ Keys(kw) = {"all__index", "message"}
    /\ err = "TypeError"
    /\ Len(hooks) = 1 /\ IsBarHook(hooks[1]) /\ hooks[1].bar = "all"
    /\ Bar(bars, "all").index = None
    /\ state = <<>>

====
